---- MODULE Spec2Model ----
(***************************************************************************)
(* Model of router.py: the SNS -> notify-lambda router.  handler walks the *)
(* records of one SNS event, decodes each CloudWatch alarm message and     *)
(* invokes the DevOps-notify lambda through send_payload: one e-mail per   *)
(* configured recipient for alarms of the ETL namespace, one Teams card    *)
(* for every other alarm.                                                  *)
(*                                                                         *)
(* Strings the code takes apart (ARN, recipient list, alarm name,          *)
(* timestamp) are sequences of tokens; a token stands for a run of         *)
(* characters that holds no separator.  Python's None is the string        *)
(* "None"; an empty dict is EmptyDict.                                     *)
(***************************************************************************)
EXTENDS Integers, Sequences, FiniteSets, TLC

\* ------------------------------------------------------------------ bounds
MaxRecords == 2

\* --------------------------------------------------- python string helpers
None == "None"
EmptyDict == [k \in {} |-> None]

RECURSIVE split(_, _)
\* str.split(sep): the pieces between the separators, always at least one
split(s, sep) ==
  IF \A k \in 1..Len(s) : s[k] # sep
    THEN <<s>>
    ELSE LET k == CHOOSE j \in 1..Len(s) :
                    s[j] = sep /\ \A h \in 1..(j - 1) : s[h] # sep
         IN  <<SubSeq(s, 1, k - 1)>> \o split(SubSeq(s, k + 1, Len(s)), sep)

RECURSIVE strip(_)
\* str.strip(): leading and trailing blanks removed
strip(s) ==
  IF s = <<>> THEN s
  ELSE IF Head(s) = " " THEN strip(Tail(s))
  ELSE IF s[Len(s)] = " " THEN strip(SubSeq(s, 1, Len(s) - 1))
  ELSE s

\* urllib.parse.quote on one token: reserved characters are percent-encoded
quote_token(c) ==
  CASE c = " " -> "%20"
    [] c = "&" -> "%26"
    [] c = ":" -> "%3A"
    [] c = "," -> "%2C"
    [] OTHER   -> c

\* urllib.parse.quote(alarm_name)
quote(s) == [k \in 1..Len(s) |-> quote_token(s[k])]

\* str.replace("Z", "+00:00")
replace_Z(s) == [k \in 1..Len(s) |-> IF s[k] = "Z" THEN "+00:00" ELSE s[k]]

IsoDateTimes == {"2020-01-01T00:00:00"}
IsoOffsets == {"+00:00"}

\* datetime.fromisoformat: a date-time, optionally followed by a UTC offset;
\* anything else is a ValueError
fromisoformat(s) ==
  IF Len(s) = 1 /\ s[1] \in IsoDateTimes
    THEN [ok |-> TRUE, dt |-> s[1], tz |-> None]
  ELSE IF Len(s) = 2 /\ s[1] \in IsoDateTimes /\ s[2] \in IsoOffsets
    THEN [ok |-> TRUE, dt |-> s[1], tz |-> s[2]]
  ELSE [ok |-> FALSE, dt |-> None, tz |-> None]

\* datetime.isoformat()
isoformat(t) == IF t.tz = None THEN <<t.dt>> ELSE <<t.dt, t.tz>>

\* json.loads: the decoded document, or a JSONDecodeError
json_loads(text) == [ok |-> text.json, value |-> text.doc]

\* ----------------------------------------------------- module-level state
LAMBDA_NAME == "devops-notify"

COLOURS ==
  [s \in {"INSUFFICIENT_DATA", "ALARM", "OK"} |->
     CASE s = "INSUFFICIENT_DATA" -> "fce94f"
       [] s = "ALARM"             -> "ef2929"
       [] s = "OK"                -> "acda00"]

\* alarm names
MyAlarm == <<"MyAlarm">>
AmpAlarm == <<"My", " ", "Alarm", "&", "1">>
Unlisted == <<"Unlisted">>

\* config.ini, section Recipients: alarm name -> comma separated addresses
RecipientsSection ==
  [n \in {MyAlarm, AmpAlarm} |->
     IF n = MyAlarm THEN <<"a@x.com", ",", " ", "b@x.com">>
                    ELSE <<" ", "c@x.com", " ">>]

\* the configurations the process may have read at start
Configs ==
  { [Templates |-> [o \in {"ETLAlarm"} |-> "template-1"],
     Recipients |-> RecipientsSection],
    [Templates |-> EmptyDict, Recipients |-> RecipientsSection] }

\* ConfigParser.get(section, option): the value, or NoOptionError
config_get(cfg, section, option) ==
  IF option \in DOMAIN cfg[section]
    THEN [ok |-> TRUE, value |-> cfg[section][option]]
    ELSE [ok |-> FALSE, value |-> <<>>]

\* get_recipients without the strip
get_recipients_nostrip(cfg, alarm_name) ==
  split(config_get(cfg, "Recipients", alarm_name).value, ",")

get_recipients(cfg, alarm_name) ==
  LET parts == split(config_get(cfg, "Recipients", alarm_name).value, ",")
  IN  [k \in 1..Len(parts) |-> strip(parts[k])]

\* ----------------------------------------------------------- input events
Trigger(ns) ==
  [Namespace |-> ns, Statistic |-> "Average", MetricName |-> "Errors",
   ComparisonOperator |-> "GreaterThanThreshold", Threshold |-> "1.0",
   EvaluationPeriods |-> "2", Period |-> "60"]

\* the CloudWatch alarm document carried in Sns.Message
AlarmDoc(name, state, ns) ==
  [AlarmName |-> name, OldStateValue |-> "OK", NewStateValue |-> state,
   NewStateReason |-> "Threshold Crossed", Trigger |-> Trigger(ns)]

Without(doc, keys) == [k \in (DOMAIN doc) \ keys |-> doc[k]]

\* Sns.Message as text: JSON encoding a document, or text that is not JSON
JsonText(doc) == [json |-> TRUE, doc |-> doc]
NotJson == [json |-> FALSE, doc |-> EmptyDict]

GoodTimestamp == <<"2020-01-01T00:00:00", "Z">>
BadTimestamp == <<"yesterday">>
GoodArn == <<"arn", ":", "aws", ":", "sns", ":", "eu-west-1", ":", "123", ":", "topic", ":", "sub">>
ShortArn == <<"arn", ":", "aws", ":", "sns">>

SnsRecord(text, ts, arn) ==
  [Sns |-> [Message |-> text, Timestamp |-> ts], EventSubscriptionArn |-> arn]

States == {"OK", "ALARM", "INSUFFICIENT_DATA", "BOGUS"}

WellFormedRecords ==
  { SnsRecord(JsonText(AlarmDoc(n, s, "ETL")), GoodTimestamp, GoodArn) :
      n \in {MyAlarm, AmpAlarm, Unlisted}, s \in {"OK", "BOGUS"} }
  \cup
  { SnsRecord(JsonText(AlarmDoc(n, s, "AWS/Lambda")), GoodTimestamp, GoodArn) :
      n \in {MyAlarm, AmpAlarm}, s \in States }

DefectDoc == AlarmDoc(AmpAlarm, "ALARM", "AWS/Lambda")

DefectiveRecords ==
  { SnsRecord(NotJson, GoodTimestamp, GoodArn),
    SnsRecord(NotJson, BadTimestamp, ShortArn),
    SnsRecord(JsonText(DefectDoc), BadTimestamp, GoodArn),
    SnsRecord(JsonText(DefectDoc), GoodTimestamp, ShortArn),
    SnsRecord(JsonText(DefectDoc), BadTimestamp, ShortArn),
    SnsRecord(JsonText(Without(DefectDoc, {"Trigger"})), GoodTimestamp, GoodArn),
    SnsRecord(JsonText(Without(DefectDoc, {"Trigger"})), BadTimestamp, GoodArn),
    SnsRecord(JsonText(Without(DefectDoc, {"Trigger"})), GoodTimestamp, ShortArn),
    SnsRecord(JsonText(Without(DefectDoc, {"AlarmName", "Trigger"})), GoodTimestamp, GoodArn),
    SnsRecord(JsonText(Without(DefectDoc, {"NewStateReason"})), BadTimestamp, ShortArn) }

InputRecords == WellFormedRecords \cup DefectiveRecords

Events ==
  { [Records |-> rs] : rs \in UNION { [1..n -> InputRecords] : n \in 0..MaxRecords } }

\* what lamb.invoke may produce: a response (with or without FunctionError),
\* or a ClientError raised by the client
DispatcherBody(k) == IF k % 2 = 1 THEN "body-odd" ELSE "body-even"

Outcomes(k) ==
  { [exception |-> None, FunctionError |-> None, Payload |-> DispatcherBody(k)],
    [exception |-> None, FunctionError |-> "Unhandled", Payload |-> "error-body"],
    [exception |-> "ClientError", FunctionError |-> None, Payload |-> None] }

\* ---------------------------------------------------------------- logging
EventLog == [level |-> "INFO", msg |-> "Event", error |-> None]
MessageLog == [level |-> "INFO", msg |-> "Message", error |-> None]
FunctionErrorLog == [level |-> "INFO", msg |-> "FunctionError", error |-> "DownstreamNotifyFailed"]
ClientErrorLog ==
  [level |-> "ERROR", msg |-> "Error when invoking DevOps notify.", error |-> "DispatchTransportError"]

\* ------------------------------------------------------------ send_payload
\* send_payload that returns the body whatever the response says
send_payload_ignores_error(payload, outcome) ==
  IF outcome.exception = "ClientError"
    THEN [raised |-> "DispatchTransportError", ret |-> None, read |-> FALSE,
          logs |-> <<ClientErrorLog>>]
    ELSE [raised |-> None, ret |-> outcome.Payload, read |-> TRUE, logs |-> <<>>]

\* send_payload that reads the body before it looks at FunctionError
send_payload_reads_first(payload, outcome) ==
  IF outcome.exception = "ClientError"
    THEN [raised |-> "DispatchTransportError", ret |-> None, read |-> FALSE,
          logs |-> <<ClientErrorLog>>]
  ELSE IF outcome.FunctionError # None
    THEN [raised |-> "DownstreamNotifyFailed", ret |-> None, read |-> TRUE,
          logs |-> <<FunctionErrorLog>>]
  ELSE [raised |-> None, ret |-> outcome.Payload, read |-> TRUE, logs |-> <<>>]

\* send_payload whose except clause re-raises without logging
send_payload_silent(payload, outcome) ==
  IF outcome.exception = "ClientError"
    THEN [raised |-> "DispatchTransportError", ret |-> None, read |-> FALSE,
          logs |-> <<>>]
  ELSE IF outcome.FunctionError # None
    THEN [raised |-> "DownstreamNotifyFailed", ret |-> None, read |-> FALSE,
          logs |-> <<FunctionErrorLog>>]
  ELSE [raised |-> None, ret |-> outcome.Payload, read |-> TRUE, logs |-> <<>>]

\* send_payload(payload) when lamb.invoke ends with outcome: the exception it
\* raises (or None), the value it returns, whether resp['Payload'] was read,
\* and what it logged
send_payload(payload, outcome) ==
  IF outcome.exception = "ClientError"
    THEN [raised |-> "DispatchTransportError", ret |-> None, read |-> FALSE,
          logs |-> <<ClientErrorLog>>]
  ELSE IF outcome.FunctionError # None
    THEN [raised |-> "DownstreamNotifyFailed", ret |-> None, read |-> FALSE,
          logs |-> <<FunctionErrorLog>>]
  ELSE [raised |-> None, ret |-> outcome.Payload, read |-> TRUE, logs |-> <<>>]

\* ---------------------------------------------------------------- payloads
email_payload(recipient, template, name, trig, ts, old, new, why, reg) ==
  [message_type |-> "email",
   to |-> recipient,
   template_id |-> template,
   template_vars |->
     [alarm_name |-> name,
      statistic |-> trig.Statistic,
      metric_name |-> trig.MetricName,
      operator |-> trig.ComparisonOperator,
      threshold |-> trig.Threshold,
      eval_periods |-> trig.EvaluationPeriods,
      period |-> trig.Period,
      time |-> isoformat(ts),
      old_state |-> old,
      new_state |-> new,
      reason |-> why,
      region |-> reg,
      quoted_alarm_name |-> quote(name)]]

\* COLOURS.get(new_state, default) in place of COLOURS[new_state]
theme_colour_default(new) ==
  IF new \in DOMAIN COLOURS THEN [ok |-> TRUE, value |-> COLOURS[new]]
                            ELSE [ok |-> TRUE, value |-> "ffffff"]

\* COLOURS[new_state]: the colour, or a KeyError
theme_colour(new) ==
  IF new \in DOMAIN COLOURS THEN [ok |-> TRUE, value |-> COLOURS[new]]
                            ELSE [ok |-> FALSE, value |-> None]

\* the card coloured by the old state
card_payload_old_colour(colour, name, trig, ts, old, new, why, reg) ==
  [message_type |-> "teams",
   body |->
     [summary |-> <<"AWS Cloudwatch Alarm: ">> \o name \o <<" has transitioned">>,
      title |-> "AWS Cloudwatch Alarm",
      themeColor |-> theme_colour_default(old).value,
      section_title |-> name \o <<" has transitioned">>,
      section_text |-> <<trig.Statistic, " ", trig.MetricName, " ", trig.ComparisonOperator,
                         " ", trig.Threshold, " for ", trig.EvaluationPeriods,
                         " periods(s) of ", trig.Period, " seconds.">>,
      facts |-> << [name |-> "Time", value |-> isoformat(ts)],
                   [name |-> "Old State", value |-> <<old>>],
                   [name |-> "New State", value |-> <<new>>],
                   [name |-> "Reason", value |-> <<why>>] >>,
      action_uri |-> <<"https://console.aws.amazon.com/cloudwatch/home?region=">> \o reg
                     \o <<"#alarm:alarmFilter=ANY;name=">> \o quote(name)]]

card_payload(colour, name, trig, ts, old, new, why, reg) ==
  [message_type |-> "teams",
   body |->
     [summary |-> <<"AWS Cloudwatch Alarm: ">> \o name \o <<" has transitioned">>,
      title |-> "AWS Cloudwatch Alarm",
      themeColor |-> colour,
      section_title |-> name \o <<" has transitioned">>,
      section_text |-> <<trig.Statistic, " ", trig.MetricName, " ", trig.ComparisonOperator,
                         " ", trig.Threshold, " for ", trig.EvaluationPeriods,
                         " periods(s) of ", trig.Period, " seconds.">>,
      facts |-> << [name |-> "Time", value |-> isoformat(ts)],
                   [name |-> "Old State", value |-> <<old>>],
                   [name |-> "New State", value |-> <<new>>],
                   [name |-> "Reason", value |-> <<why>>] >>,
      action_uri |-> <<"https://console.aws.amazon.com/cloudwatch/home?region=">> \o reg
                     \o <<"#alarm:alarmFilter=ANY;name=">> \o quote(name)]]

\* ------------------------------------------------------------------- state
VARIABLES
  event,        \* the SNS event handed to handler
  config,       \* the ConfigParser read at import
  pc,           \* where handler is
  i,            \* 1-based index of `record` in records
  message, timestamp, region,
  alarm_name, old_state, new_state, reason, trigger,
  template_id,
  recipients,   \* what the loop over get_recipients(alarm_name) has left
  calls,        \* the lamb.invoke calls made so far, in order
  log,          \* what logger has emitted so far
  raised,       \* the exception that left handler, None while there is none
  sent,         \* the value of the last send_payload(payload) expression
  retval        \* the value handler returned

locals == <<message, timestamp, region, alarm_name, old_state, new_state, reason,
            trigger, template_id, recipients>>
vars == <<event, config, pc, i, locals, calls, log, raised, sent, retval>>

records == event.Records

NoTime == [ok |-> FALSE, dt |-> None, tz |-> None]

Init ==
  /\ event \in Events
  /\ config \in Configs
  /\ pc = "entry"
  /\ i = 1
  /\ message = EmptyDict
  /\ timestamp = NoTime
  /\ region = <<>>
  /\ alarm_name = <<>>
  /\ old_state = None
  /\ new_state = None
  /\ reason = None
  /\ trigger = EmptyDict
  /\ template_id = None
  /\ recipients = <<>>
  /\ calls = <<>>
  /\ log = <<>>
  /\ raised = None
  /\ sent = None
  /\ retval = None

\* ------------------------------------------------------------ control flow
\* statement order with the message fields read right after json.loads
NextStep_fields_first(at) ==
  CASE at = "loads"     -> "fields"
    [] at = "fields"    -> "timestamp"
    [] at = "timestamp" -> "region"
    [] at = "region"    -> "dispatch"
    [] at = "email"     -> "for"
    [] at = "card"      -> "for"

\* statement order with `return send_payload(payload)` on the card branch
NextStep_return_after_card(at) ==
  CASE at = "loads"     -> "timestamp"
    [] at = "timestamp" -> "region"
    [] at = "region"    -> "fields"
    [] at = "fields"    -> "dispatch"
    [] at = "email"     -> "for"
    [] at = "card"      -> "done"

\* the statement that follows `at` in the body of the for loop; the last
\* statement of a branch is followed by the loop head
NextStep(at) ==
  CASE at = "loads"     -> "timestamp"
    [] at = "timestamp" -> "region"
    [] at = "region"    -> "fields"
    [] at = "fields"    -> "dispatch"
    [] at = "email"     -> "for"
    [] at = "card"      -> "for"

\* an exception caught around the record, the loop going on with the next one
Raise_next_record(kind) ==
  /\ pc' = "for"
  /\ i' = i + 1
  /\ raised' = raised

\* an exception raised inside handler: nothing catches it, handler ends
Raise(kind) ==
  /\ pc' = "raised"
  /\ i' = i
  /\ raised' = kind

\* handler returning the last dispatcher result
handler_return_last(last) == last

\* handler has no return statement: it returns None
handler_return(last) == None

RequiredFields ==
  <<"AlarmName", "OldStateValue", "NewStateValue", "NewStateReason", "Trigger">>

\* ----------------------------------------------------------------- actions
\* lines 50-52
HandlerEntry ==
  /\ pc = "entry"
  /\ log' = Append(log, EventLog)
  /\ pc' = "for"
  /\ UNCHANGED <<event, config, i, locals, calls, raised, sent, retval>>

\* line 53, a record is left
ForRecord ==
  /\ pc = "for"
  /\ i <= Len(records)
  /\ pc' = "loads"
  /\ UNCHANGED <<event, config, i, locals, calls, log, raised, sent, retval>>

\* line 53, the records are exhausted: handler falls off its end
HandlerReturn ==
  /\ pc = "for"
  /\ i > Len(records)
  /\ pc' = "done"
  /\ retval' = handler_return(sent)
  /\ UNCHANGED <<event, config, i, locals, calls, log, raised, sent>>

\* lines 54-55
JsonLoads ==
  /\ pc = "loads"
  /\ LET r == json_loads(records[i].Sns.Message)
     IN  IF r.ok
           THEN /\ message' = r.value
                /\ log' = Append(log, MessageLog)
                /\ pc' = NextStep("loads")
                /\ UNCHANGED <<i, raised>>
           ELSE /\ Raise("MalformedMessage")
                /\ UNCHANGED <<message, log>>
  /\ UNCHANGED <<event, config, timestamp, region, alarm_name, old_state, new_state,
                 reason, trigger, template_id, recipients, calls, sent, retval>>

\* line 56
ParseTimestamp ==
  /\ pc = "timestamp"
  /\ LET t == fromisoformat(replace_Z(records[i].Sns.Timestamp))
     IN  IF t.ok
           THEN /\ timestamp' = t
                /\ pc' = NextStep("timestamp")
                /\ UNCHANGED <<i, raised>>
           ELSE /\ Raise("MalformedTimestamp")
                /\ UNCHANGED timestamp
  /\ UNCHANGED <<event, config, message, region, alarm_name, old_state, new_state,
                 reason, trigger, template_id, recipients, calls, log, sent, retval>>

\* line 57
ExtractRegion ==
  /\ pc = "region"
  /\ LET parts == split(records[i].EventSubscriptionArn, ":")
     IN  IF Len(parts) >= 4
           THEN /\ region' = parts[4]
                /\ pc' = NextStep("region")
                /\ UNCHANGED <<i, raised>>
           ELSE /\ Raise("MalformedArn")
                /\ UNCHANGED region
  /\ UNCHANGED <<event, config, message, timestamp, alarm_name, old_state, new_state,
                 reason, trigger, template_id, recipients, calls, log, sent, retval>>

\* lines 58-62
ReadFields ==
  /\ pc = "fields"
  /\ IF \A k \in 1..Len(RequiredFields) : RequiredFields[k] \in DOMAIN message
       THEN /\ alarm_name' = message["AlarmName"]
            /\ old_state' = message["OldStateValue"]
            /\ new_state' = message["NewStateValue"]
            /\ reason' = message["NewStateReason"]
            /\ trigger' = message["Trigger"]
            /\ pc' = NextStep("fields")
            /\ UNCHANGED <<i, raised>>
       ELSE /\ Raise("MalformedMessage")
            /\ UNCHANGED <<alarm_name, old_state, new_state, reason, trigger>>
  /\ UNCHANGED <<event, config, message, timestamp, region, template_id, recipients,
                 calls, log, sent, retval>>

\* lines 63-65 and 87
Dispatch ==
  /\ pc = "dispatch"
  /\ IF trigger["Namespace"] = "ETL"
       THEN LET t == config_get(config, "Templates", "ETLAlarm")
                r == config_get(config, "Recipients", alarm_name)
            IN  IF ~t.ok
                  THEN /\ Raise("MissingTemplate")
                       /\ UNCHANGED <<template_id, recipients>>
                ELSE IF ~r.ok
                  THEN /\ Raise("UnknownAlarm")
                       /\ template_id' = t.value
                       /\ UNCHANGED recipients
                ELSE /\ template_id' = t.value
                     /\ recipients' = get_recipients(config, alarm_name)
                     /\ pc' = "email"
                     /\ UNCHANGED <<i, raised>>
       ELSE /\ pc' = "card"
            /\ UNCHANGED <<i, raised, template_id, recipients>>
  /\ UNCHANGED <<event, config, message, timestamp, region, alarm_name, old_state,
                 new_state, reason, trigger, calls, log, sent, retval>>

\* the record of one lamb.invoke in calls
Call(payload, outcome, r) ==
  [rec |-> i, payload |-> payload, resp |-> outcome, read |-> r.read, ret |-> r.ret]

\* lines 65-86, one turn of the loop over the recipients
SendEmail ==
  /\ pc = "email"
  /\ recipients # <<>>
  /\ \E outcome \in Outcomes(Len(calls) + 1) :
       LET payload == email_payload(Head(recipients), template_id, alarm_name, trigger,
                                    timestamp, old_state, new_state, reason, region)
           r == send_payload(payload, outcome)
       IN  /\ calls' = Append(calls, Call(payload, outcome, r))
           /\ log' = log \o r.logs
           /\ IF r.raised = None
                THEN /\ sent' = r.ret
                     /\ recipients' = Tail(recipients)
                     /\ raised' = raised
                     /\ IF Tail(recipients) = <<>>
                          THEN pc' = NextStep("email") /\ i' = i + 1
                          ELSE pc' = pc /\ i' = i
                ELSE /\ Raise(r.raised)
                     /\ UNCHANGED <<sent, recipients>>
  /\ UNCHANGED <<event, config, message, timestamp, region, alarm_name, old_state,
                 new_state, reason, trigger, template_id, retval>>

\* lines 88-137
SendCard ==
  /\ pc = "card"
  /\ LET c == theme_colour(new_state)
     IN  IF ~c.ok
           THEN /\ Raise("UnknownState")
                /\ UNCHANGED <<calls, log, sent>>
           ELSE \E outcome \in Outcomes(Len(calls) + 1) :
                  LET payload == card_payload(c.value, alarm_name, trigger, timestamp,
                                              old_state, new_state, reason, region)
                      r == send_payload(payload, outcome)
                  IN  /\ calls' = Append(calls, Call(payload, outcome, r))
                      /\ log' = log \o r.logs
                      /\ IF r.raised = None
                           THEN /\ sent' = r.ret
                                /\ raised' = raised
                                /\ pc' = NextStep("card")
                                /\ i' = i + 1
                           ELSE /\ Raise(r.raised)
                                /\ UNCHANGED sent
  /\ UNCHANGED <<event, config, locals, retval>>

Next ==
  \/ HandlerEntry
  \/ ForRecord
  \/ HandlerReturn
  \/ JsonLoads
  \/ ParseTimestamp
  \/ ExtractRegion
  \/ ReadFields
  \/ Dispatch
  \/ SendEmail
  \/ SendCard

Spec == Init /\ [][Next]_vars

\* ------------------------------------------------- vocabulary of the claims
Rec(r) == records[r]
Doc(r) == Rec(r).Sns.Message.doc
RecIds == 1..Len(records)
CallIds == 1..Len(calls)

IsJson(r) == Rec(r).Sns.Message.json
HasFields(r) == IsJson(r) /\ \A k \in 1..Len(RequiredFields) : RequiredFields[k] \in DOMAIN Doc(r)
LacksTrigger(r) == IsJson(r) /\ "Trigger" \notin DOMAIN Doc(r)
TimestampOk(r) == fromisoformat(replace_Z(Rec(r).Sns.Timestamp)).ok
ArnOk(r) == Len(split(Rec(r).EventSubscriptionArn, ":")) >= 4
\* the record passes steps a, b and c
WellFormed(r) == HasFields(r) /\ TimestampOk(r) /\ ArnOk(r)
IsETL(r) == HasFields(r) /\ Doc(r).Trigger.Namespace = "ETL"
NonETL(r) == HasFields(r) /\ Doc(r).Trigger.Namespace # "ETL"
KnownStates == {"OK", "ALARM", "INSUFFICIENT_DATA"}

CallsFor(r) == SelectSeq(calls, LAMBDA c : c.rec = r)
CallOk(c) == c.resp.exception = None /\ c.resp.FunctionError = None
\* the processing of record r is over: it went through, or it raised
Ended(r) == i > r \/ (i = r /\ pc = "raised")
DispatchErrors == {"DownstreamNotifyFailed", "DispatchTransportError"}
Taxonomy ==
  {"MalformedMessage", "MalformedTimestamp", "MalformedArn", "UnknownAlarm",
   "UnknownState"} \cup DispatchErrors
Logged(kind) == \E k \in 1..Len(log) : log[k].error = kind

\* the addresses config.ini lists for an alarm, written out
ListedAddresses(name) ==
  IF name = MyAlarm THEN << <<"a@x.com">>, <<"b@x.com">> >>
  ELSE IF name = AmpAlarm THEN << <<"c@x.com">> >>
  ELSE <<>>

TemplateConfigured == "ETLAlarm" \in DOMAIN config.Templates
AlarmListed(r) == Doc(r).AlarmName \in DOMAIN config.Recipients

\* C1: for a well-formed ETL record whose alarm name is listed (and with the
\* template configured), the dispatcher calls made for the record are e-mail
\* payloads addressed to the listed recipients in list order, all with the
\* same template variables and differing only in `to`; when every call
\* succeeds there are exactly n of them, and a failed call is the last one.
C1_EmailPerRecipient ==
  \A r \in RecIds :
    (WellFormed(r) /\ IsETL(r) /\ AlarmListed(r) /\ TemplateConfigured /\ Ended(r)) =>
      LET cs == CallsFor(r)
          addrs == ListedAddresses(Doc(r).AlarmName)
      IN  /\ Len(cs) >= 1
          /\ Len(cs) <= Len(addrs)
          /\ \A k \in 1..Len(cs) :
               /\ cs[k].payload.message_type = "email"
               /\ cs[k].payload.to = addrs[k]
               /\ cs[k].payload.template_vars = cs[1].payload.template_vars
               /\ [cs[k].payload EXCEPT !.to = cs[1].payload.to] = cs[1].payload
               /\ (k < Len(cs) => CallOk(cs[k]))
          /\ (i > r <=> (Len(cs) = Len(addrs) /\ CallOk(cs[Len(cs)])))

C1_Witness ==
  \E r \in RecIds :
    /\ IsETL(r) /\ Doc(r).AlarmName = MyAlarm /\ i > r
    /\ Len(CallsFor(r)) = 2
    /\ CallsFor(r)[1].payload.to # CallsFor(r)[2].payload.to

\* C2: for a well-formed record with a non-ETL namespace and a NewStateValue
\* among OK, ALARM, INSUFFICIENT_DATA, exactly one dispatcher call is made,
\* a card whose themeColor is COLOURS[NewStateValue]; no e-mail is sent.
C2_OneCardPerRecord ==
  \A r \in RecIds :
    (WellFormed(r) /\ NonETL(r) /\ Doc(r).NewStateValue \in KnownStates /\ Ended(r)) =>
      LET cs == CallsFor(r)
      IN  /\ Len(cs) = 1
          /\ cs[1].payload.message_type = "teams"
          /\ cs[1].payload.body.themeColor = COLOURS[Doc(r).NewStateValue]

C2_Witness ==
  \E r \in RecIds :
    /\ NonETL(r) /\ Doc(r).NewStateValue = "ALARM" /\ i > r
    /\ Len(CallsFor(r)) = 1
    /\ CallsFor(r)[1].payload.body.themeColor = "ef2929"

\* C3 as stated: after a batch processed without error in which a dispatcher
\* call was made, handler's return value is the last call's response body.
C3_ReturnsLastBody ==
  (pc = "done" /\ calls # <<>>) => retval = calls[Len(calls)].resp.Payload

\* C3 amended: after a batch processed without error in which a dispatcher
\* call was made, the last call's response body is what send_payload returned
\* last, and handler returns None.
C3_ReturnsNone ==
  (pc = "done" /\ calls # <<>>) =>
     /\ sent = calls[Len(calls)].resp.Payload
     /\ retval = None

C3_Witness ==
  /\ pc = "done"
  /\ Len(calls) >= 2
  /\ sent = calls[Len(calls)].resp.Payload
  /\ sent # calls[1].resp.Payload
  /\ retval = None

AllCard == \A r \in RecIds : WellFormed(r) /\ NonETL(r) /\ Doc(r).NewStateValue \in KnownStates

\* C4 as stated: in a batch of two or more non-ETL records only the first
\* record is dispatched, one call in total.
C4_OnlyFirstRecordDispatched ==
  (Len(records) >= 2 /\ AllCard) =>
     /\ \A k \in CallIds : calls[k].rec = 1
     /\ (pc = "done" => Len(calls) = 1)

\* C4 amended: in a batch of two or more non-ETL records (known states) the
\* k-th dispatcher call is the card of the k-th record, and a batch processed
\* without error has made one call per record.
C4_OneCallPerCardRecord ==
  (Len(records) >= 2 /\ AllCard) =>
     /\ \A k \in CallIds : calls[k].rec = k /\ calls[k].payload.message_type = "teams"
     /\ (pc = "done" => Len(calls) = Len(records))
     /\ (Len(calls) < Len(records) /\ (calls = <<>> \/ CallOk(calls[Len(calls)]))
           => pc \notin {"done", "raised"})

C4_Witness ==
  /\ Len(records) >= 2 /\ AllCard
  /\ pc = "done"
  /\ Len(calls) = Len(records)
  /\ calls[2].rec = 2

\* C5 as stated: a record lacking Trigger anywhere in the batch means that
\* no dispatcher call at all is made and the batch ends in MalformedMessage.
C5_NoCallAtAll ==
  (\E r \in RecIds : LacksTrigger(r)) =>
     /\ calls = <<>>
     /\ pc # "done"
     /\ (pc = "raised" => raised = "MalformedMessage")

\* C5 amended: a record lacking Trigger is never got past: the batch does
\* not complete, no dispatcher call is made for that record or a later one,
\* and when processing stops at that record with timestamp and ARN well
\* formed the error is MalformedMessage.
C5_NoCallFromMalformedOn ==
  \A r \in RecIds :
    LacksTrigger(r) =>
      /\ pc # "done"
      /\ i <= r
      /\ \A k \in CallIds : calls[k].rec < r
      /\ (pc = "raised" /\ i = r /\ TimestampOk(r) /\ ArnOk(r)
            => raised = "MalformedMessage")

C5_Witness ==
  \E r \in RecIds :
    /\ r >= 2 /\ LacksTrigger(r) /\ Doc(r) # EmptyDict
    /\ pc = "raised" /\ i = r /\ raised = "MalformedMessage"
    /\ calls # <<>>

\* the first step of record r that fails by the record and the configuration
\* alone, None when none does
FirstDefect(r) ==
  IF ~IsJson(r) THEN "MalformedMessage"
  ELSE IF ~TimestampOk(r) THEN "MalformedTimestamp"
  ELSE IF ~ArnOk(r) THEN "MalformedArn"
  ELSE IF ~HasFields(r) THEN "MalformedMessage"
  ELSE IF IsETL(r) /\ ~TemplateConfigured THEN "MissingTemplate"
  ELSE IF IsETL(r) /\ ~AlarmListed(r) THEN "UnknownAlarm"
  ELSE IF NonETL(r) /\ Doc(r).NewStateValue \notin KnownStates THEN "UnknownState"
  ELSE None

\* C6: a failed step ends the invocation: a dispatcher call that reported a
\* failure is the last call ever made and leaves handler raised at that
\* record, and a record with a defect gets no call, is never got past, and
\* no record after it gets a call.
C6_State ==
  /\ \A k \in CallIds : ~CallOk(calls[k]) =>
        /\ k = Len(calls)
        /\ pc = "raised" /\ i = calls[k].rec
        /\ raised \in DispatchErrors
  /\ \A r \in RecIds : FirstDefect(r) # None =>
        /\ i <= r
        /\ pc # "done"
        /\ \A k \in CallIds : calls[k].rec < r
  /\ (pc = "raised" <=> raised # None)

C6_Witness ==
  /\ pc = "raised" /\ raised = "DownstreamNotifyFailed"
  /\ Len(recipients) = 2
  /\ i < Len(records)
  /\ FirstDefect(i + 1) = None
  /\ calls # <<>>
  /\ ~CallOk(calls[Len(calls)])
  /\ \A k \in CallIds : calls[k].rec <= i

\* C7 as stated: whatever error of the taxonomy leaves handler, a log entry
\* for it has been emitted.
C7_EveryErrorLogged ==
  (pc = "raised" /\ raised \in Taxonomy) => Logged(raised)

\* C7 amended: the error that leaves handler has a log entry exactly when it
\* comes from the dispatcher call (DownstreamNotifyFailed,
\* DispatchTransportError); the other kinds leave handler unlogged.
C7_OnlyDispatchErrorsLogged ==
  pc = "raised" =>
     /\ (raised \in DispatchErrors => log # <<>> /\ log[Len(log)].error = raised)
     /\ (raised \notin DispatchErrors => \A k \in 1..Len(log) : log[k].error = None)

C7_Witness ==
  /\ pc = "raised" /\ raised = "DispatchTransportError"
  /\ log[Len(log)] = ClientErrorLog

\* C8 as stated: whatever the namespace, a record with an unknown
\* NewStateValue fails with UnknownState and gets no dispatcher call.
C8_UnknownStateAlwaysFails ==
  \A r \in RecIds :
    (WellFormed(r) /\ Doc(r).NewStateValue \notin KnownStates) =>
       /\ CallsFor(r) = <<>>
       /\ i <= r
       /\ (pc = "raised" /\ i = r => raised = "UnknownState")

\* C8 amended: for a well-formed record with a non-ETL namespace, a known
\* NewStateValue gives the card the colour configured for it, and an unknown
\* one fails with UnknownState before any dispatcher call for the record;
\* an ETL record is e-mailed with its NewStateValue as it is, known or not.
C8_ColourOnCardPath ==
  /\ \A r \in RecIds :
       (WellFormed(r) /\ IsETL(r) /\ i > r) =>
          \A k \in CallIds : calls[k].rec = r =>
             /\ calls[k].payload.message_type = "email"
             /\ calls[k].payload.template_vars.new_state = Doc(r).NewStateValue
  /\ \A r \in RecIds :
    (WellFormed(r) /\ NonETL(r)) =>
       /\ Doc(r).NewStateValue \in KnownStates =>
            \A k \in CallIds : calls[k].rec = r =>
               calls[k].payload.body.themeColor =
                 (CASE Doc(r).NewStateValue = "OK" -> "acda00"
                    [] Doc(r).NewStateValue = "ALARM" -> "ef2929"
                    [] Doc(r).NewStateValue = "INSUFFICIENT_DATA" -> "fce94f")
       /\ Doc(r).NewStateValue \notin KnownStates =>
            /\ CallsFor(r) = <<>>
            /\ i <= r
            /\ (pc = "raised" /\ i = r => raised = "UnknownState")

C8_Witness ==
  \E r \in RecIds :
    /\ WellFormed(r) /\ NonETL(r) /\ Doc(r).NewStateValue = "BOGUS"
    /\ pc = "raised" /\ i = r /\ raised = "UnknownState"
    /\ CallsFor(r) = <<>>

\* C9: a response carrying FunctionError is logged and ends in
\* DownstreamNotifyFailed without the body being read or returned; the body
\* is read and returned when there is no FunctionError; a ClientError is
\* logged and comes out as the error of handler.
C9_SendPayloadContract ==
  \A k \in CallIds :
    LET c == calls[k]
    IN  /\ (c.resp.exception = None /\ c.resp.FunctionError # None) =>
              /\ ~c.read /\ c.ret = None
              /\ k = Len(calls)
              /\ raised = "DownstreamNotifyFailed"
              /\ log[Len(log)] = FunctionErrorLog
        /\ CallOk(c) => c.read /\ c.ret = c.resp.Payload
        /\ c.resp.exception = "ClientError" =>
              /\ ~c.read /\ c.ret = None
              /\ k = Len(calls)
              /\ raised = "DispatchTransportError"
              /\ log[Len(log)] = ClientErrorLog

C9_Witness ==
  /\ calls # <<>>
  /\ calls[Len(calls)].resp.FunctionError = "Unhandled"
  /\ ~calls[Len(calls)].read
  /\ raised = "DownstreamNotifyFailed"
  /\ log[Len(log)] = FunctionErrorLog

\* C10 as stated: a record that lacks a required message field fails with
\* MalformedMessage whatever its timestamp and ARN.
C10_MissingFieldWins ==
  (pc = "raised" /\ i \in RecIds /\ IsJson(i) /\ ~HasFields(i))
     => raised = "MalformedMessage"

\* C10 amended: the steps of a record run in the order decode, timestamp,
\* region, required fields, dispatch, and a record fails with the error of
\* its earliest failing step in that order: a record lacking a required
\* field fails with MalformedTimestamp when its timestamp does not parse,
\* else MalformedArn when its ARN is short, else MalformedMessage.
C10_ErrorOfEarliestStep ==
  (pc = "raised" /\ i \in RecIds) =>
     IF FirstDefect(i) = None THEN raised \in DispatchErrors
                              ELSE raised = FirstDefect(i)

C10_Witness ==
  /\ pc = "raised" /\ i \in RecIds
  /\ LacksTrigger(i) /\ ~TimestampOk(i)
  /\ raised = "MalformedTimestamp"

====
